---- MODULE Spec2Model ----
(***************************************************************************)
(* duckdb-async: the promise wrappers Database, Connection and Statement   *)
(* around the callback based duckdb Node.JS API (src/src/duckdb-async.ts). *)
(*                                                                         *)
(* A step of the model is one turn of the JavaScript event loop: either    *)
(* the caller invoking one method of a wrapper (the method's synchronous   *)
(* part, up to its first await), or the native layer invoking the callback *)
(* of one call it received earlier (with the continuation of the awaiting  *)
(* method).  The variable last describes the step just taken.              *)
(***************************************************************************)
EXTENDS Integers, FiniteSets, Bags, TLC, Sequences

\* ---------------------------------------------------------------- bounds
MaxDb == 1
MaxConn == 2
MaxStmt == 1
MaxCalls == 4
MaxPending == 2
MaxErr == 1
MaxVal == 1
MaxRows == 2
MaxSql == 2
MaxParam == 2
MaxArgs == 2

\* `null`, the value of a wrapper's reference field when it holds no native
\* object; native objects are numbered from 1.
NULL == 0

Dbs == 1..MaxDb
Conns == 1..MaxConn
Stmts == 1..MaxStmt

\* ---------------------------------------------------------------- values
\* Every JavaScript value the model passes around has the same shape.
Val(kind, id) ==
    [kind |-> kind, code |-> "", res |-> "", op |-> "", what |-> "", id |-> id]

Undefined == Val("undefined", 0)
Null == Val("null", 0)

\* new Error("<res>.<op>: uninitialized <what>")
\* Variant: the adapter's own error carries the native code tag.
LocalError_tagged(res, op, what) ==
    [kind |-> "Error", code |-> "DUCKDB_NODEJS_ERROR", res |-> res, op |-> op,
     what |-> what, id |-> 0]
LocalError(res, op, what) ==
    [kind |-> "Error", code |-> "", res |-> res, op |-> op, what |-> what, id |-> 0]

\* An error object of the native layer: message number e and the fixed tag.
DuckDbError(e) ==
    [kind |-> "DuckDbError", code |-> "DUCKDB_NODEJS_ERROR", res |-> "", op |-> "",
     what |-> "", id |-> e]

NativeErrors == {DuckDbError(e) : e \in 1..MaxErr}

\* What the native layer hands to a callback of declared result type rtype
\* when it reports no error; obj is the native statement of a prepare/run.
NativeResults(rtype, obj) ==
    CASE rtype = "void" -> {Undefined}
      [] rtype = "Statement" -> {Val("duckdb.Statement", obj)}
      [] OTHER -> {Val(rtype, v) : v \in 1..MaxVal}

\* The wrapper objects as values.
DatabaseObj(d) == Val("Database", d)
ConnectionObj(c) == Val("Connection", c)
\* Statement.create_internal(stmt): a new wrapper around a native statement.
create_internal(nstmt) == Val("Statement", nstmt.id)

\* ---------------------------------------------------------------- open modes
\* The flag-style open modes re-exported from the native package.
OPEN_READONLY == 1
OPEN_READWRITE == 2
OPEN_CREATE == 4

\* A named-option configuration; "" stands for a key that is not present.
Config(am, mm, th, api) ==
    [access_mode |-> am, max_memory |-> mm, threads |-> th, duckdb_api |-> api]
NoConfig == Config("", "", "", "")

\* The accessMode argument of Database.create: omitted, a number or a record.
Omitted == [type |-> "undefined", num |-> 0, rec |-> NoConfig]
Flag(n) == [type |-> "number", num |-> n, rec |-> NoConfig]
Options(c) == [type |-> "record", num |-> 0, rec |-> c]

AccessModes ==
    {Omitted, Flag(OPEN_READONLY), Flag(OPEN_READWRITE), Flag(OPEN_CREATE),
     Options(Config("READ_WRITE", "512MB", "4", "")),
     Options(Config("read_only", "", "", "other"))}

\* Database.create: accessMode ?? duckdb.OPEN_READWRITE
\* Variant: the omitted argument is handed on as it is.
trueAccessMode_asGiven(accessMode) ==
    accessMode
trueAccessMode(accessMode) ==
    IF accessMode.type = "undefined" THEN Flag(OPEN_READWRITE) ELSE accessMode

\* The Database constructor's configuration for the native constructor.
\* Variant: the tag is set only on the record built from a flag.
\* Variant: a new record is built that takes only access_mode from the
\* caller's.
NativeConfig_accessModeOnly(accessMode) ==
    Config(IF accessMode.type = "number"
           THEN (IF accessMode.num = OPEN_READONLY THEN "read_only" ELSE "read_write")
           ELSE accessMode.rec.access_mode,
           "", "", "nodejs-async")
NativeConfig_tagFlagOnly(accessMode) ==
    IF accessMode.type = "number"
    THEN Config(IF accessMode.num = OPEN_READONLY
                THEN "read_only" ELSE "read_write", "", "", "nodejs-async")
    ELSE accessMode.rec
NativeConfig(accessMode) ==
    LET rec == IF accessMode.type = "number"
               THEN Config(IF accessMode.num = OPEN_READONLY
                           THEN "read_only" ELSE "read_write", "", "", "")
               ELSE accessMode.rec
    IN  [rec EXCEPT !.duckdb_api = "nodejs-async"]

\* ---------------------------------------------------------------- state
VARIABLES
    db,          \* Database.db of each Database wrapper: native ref or NULL
    dbCreate,    \* the promise of Database.create: none/pending/fulfilled/rejected
    conn,        \* Connection.conn of each Connection wrapper
    connDb,      \* the native database a Connection was constructed with
    connCreate,  \* the promise of Connection.create
    stmt,        \* Statement.stmt of each Statement wrapper, NULL: no wrapper
    nStmt,       \* native statements allocated so far
    pending,     \* bag of native calls whose callback has not fired yet
    nNative,     \* number of calls the native layer has received
    closedOk,    \* wrappers whose native close/finalize reported success
    nCalls,      \* number of adapter calls made so far
    last         \* the step just taken

vars == <<db, dbCreate, conn, connDb, connCreate, stmt, nStmt, pending,
          nNative, closedOk, nCalls, last>>

handles == <<db, dbCreate, conn, connDb, connCreate, stmt, nStmt>>

NoStep ==
    [kind |-> "none", res |-> "", op |-> "", target |-> 0, valid |-> TRUE,
     outcome |-> "", value |-> Undefined, native |-> 0,
     err |-> Null, result |-> Undefined, config |-> NoConfig,
     accessMode |-> Omitted, signals |-> <<>>]

\* The record of a caller's call: how it came back (thrown, returned, or a
\* promise that is pending or already rejected) and how many native calls
\* it made.
CallStep(res, op, t, valid, outcome, value, n) ==
    [kind |-> "call", res |-> res, op |-> op, target |-> t, valid |-> valid,
     outcome |-> outcome, value |-> value, native |-> n,
     err |-> Null, result |-> Undefined, config |-> NoConfig,
     accessMode |-> Omitted, signals |-> <<>>]

\* The record of a native callback (err, result) and of how the promise of
\* the adapter call it belongs to settled.  signals lists the settlement
\* signals the callback invoked, in order: the bridge's callback invokes
\* one, reject on an error and resolve otherwise.
CallbackStep(e, err, result, p, n) ==
    [kind |-> "callback", res |-> e.res, op |-> e.op, target |-> e.target,
     valid |-> TRUE, outcome |-> p.state, value |-> p.value, native |-> n,
     err |-> err, result |-> result, config |-> NoConfig,
     accessMode |-> Omitted,
     signals |-> IF err # Null THEN <<"reject">> ELSE <<"resolve">>]

Init ==
    /\ db = [d \in Dbs |-> NULL]
    /\ dbCreate = [d \in Dbs |-> "none"]
    /\ conn = [c \in Conns |-> NULL]
    /\ connDb = [c \in Conns |-> NULL]
    /\ connCreate = [c \in Conns |-> "none"]
    /\ stmt = [s \in Stmts |-> NULL]
    /\ nStmt = 0
    /\ pending = EmptyBag
    /\ nNative = 0
    /\ closedOk = {}
    /\ nCalls = 0
    /\ last = NoStep

\* ---------------------------------------------------------------- promises
PendingPromise == [state |-> "pending", value |-> Undefined]

\* resolve(v) / reject(e) of a promise: only the first settlement counts.
\* Variant of reject: a later rejection replaces the settlement.
Resolve(p, v) ==
    IF p.state = "pending" THEN [state |-> "fulfilled", value |-> v] ELSE p
Reject_override(p, e) ==
    [state |-> "rejected", value |-> e]
Reject(p, e) ==
    IF p.state = "pending" THEN [state |-> "rejected", value |-> e] ELSE p

\* Settlement signals invoked one after the other on promise p.
Signal(sig, arg) == [sig |-> sig, arg |-> arg]
RECURSIVE Settle(_, _)
Settle(p, sigs) ==
    IF sigs = <<>>
    THEN p
    ELSE Settle(IF Head(sigs).sig = "reject"
                THEN Reject(p, Head(sigs).arg)
                ELSE Resolve(p, Head(sigs).arg),
                Tail(sigs))
SignalNames(sigs) == [i \in 1..Len(sigs) |-> sigs[i].sig]

\* util.promisify's callback: (err, value) => err ? reject(err) : resolve(value)
promisifySignals(err, result) ==
    IF err # Null THEN <<Signal("reject", err)>> ELSE <<Signal("resolve", result)>>

\* Variant: the bridge rejects with an error of its own instead of the
\* callback's.
promisify_wrap(err, result) ==
    IF err # Null
    THEN Reject(PendingPromise, LocalError("", "", ""))
    ELSE Resolve(PendingPromise, result)
methodPromisify(err, result) ==
    Settle(PendingPromise, promisifySignals(err, result))

\* `const x = await p; return f(x)` in an async method: the method's promise
\* rejects as p does, and fulfils with f's value otherwise.
Then(p, v) ==
    IF p.state = "fulfilled" THEN [state |-> "fulfilled", value |-> v] ELSE p

QueryResult == Val("QueryResult", 0)

\* ---------------------------------------------------------------- steps
\* A native call whose callback is still to come.
\* obj is the native object the call creates (a statement, a connection, a
\* database), 0 if none.  cb is the callback the native call was given: the
\* adapter's own (the bridge's), the caller's, or none.
Entry(res, op, t, ref, rtype, obj) ==
    [res |-> res, op |-> op, target |-> t, ref |-> ref, rtype |-> rtype, obj |-> obj,
     cb |-> "adapter", seen |-> 0]

\* Native work started without a callback of the adapter: with the caller's
\* callback (each: seen is the number of rows delivered so far) or with no
\* callback at all (prepareSync, runSync).
Work(res, op, t, ref, cb) ==
    [Entry(res, op, t, ref, "RowData", 0) EXCEPT !.cb = cb]

MayCall == nCalls < MaxCalls
HoldsDb(d) == MayCall /\ dbCreate[d] = "fulfilled"
HoldsConn(c) == MayCall /\ connCreate[c] = "fulfilled"
HoldsStmt(s) == MayCall /\ stmt[s] # NULL

\* throw new Error(...) before any native call: a synchronous throw of a
\* plain method ("thrown"), an already rejected promise of an async method
\* or of a promise executor ("rejected").
FailLocally(res, op, t, outcome, e) ==
    /\ last' = CallStep(res, op, t, FALSE, outcome, e, 0)
    /\ nCalls' = nCalls + 1
    /\ UNCHANGED <<handles, pending, nNative, closedOk>>

\* A promisified native method called on ref: one native call with a
\* trailing callback, and a pending promise for the caller.
\* Variant: a call made while an earlier one on the same handle is unsettled
\* is held back.
Bridged_queued(res, op, t, ref, rtype) ==
    /\ BagCardinality(pending) < MaxPending
    /\ IF \E e \in BagToSet(pending) : e.res = res /\ e.target = t
       THEN /\ last' = CallStep(res, op, t, ref # NULL, "pending", Undefined, 0)
            /\ UNCHANGED <<pending, nNative>>
       ELSE /\ pending' = pending (+) SetToBag({Entry(res, op, t, ref, rtype, 0)})
            /\ nNative' = nNative + 1
            /\ last' = CallStep(res, op, t, ref # NULL, "pending", Undefined, 1)
    /\ nCalls' = nCalls + 1
    /\ UNCHANGED <<handles, closedOk>>
Bridged(res, op, t, ref, rtype) ==
    /\ BagCardinality(pending) < MaxPending
    /\ pending' = pending (+) SetToBag({Entry(res, op, t, ref, rtype, 0)})
    /\ nNative' = nNative + 1
    /\ last' = CallStep(res, op, t, ref # NULL, "pending", Undefined, 1)
    /\ nCalls' = nCalls + 1
    /\ UNCHANGED <<handles, closedOk>>

\* The promisified native prepare/run: the native layer allocates the
\* statement it will hand to the callback.
BridgedStmt(res, op, t, ref) ==
    /\ BagCardinality(pending) < MaxPending
    /\ nStmt < MaxStmt
    /\ nStmt' = nStmt + 1
    /\ pending' = pending (+) SetToBag({Entry(res, op, t, ref, "Statement", nStmt + 1)})
    /\ nNative' = nNative + 1
    /\ last' = CallStep(res, op, t, ref # NULL, "pending", Undefined, 1)
    /\ nCalls' = nCalls + 1
    /\ UNCHANGED <<db, dbCreate, conn, connDb, connCreate, stmt, closedOk>>

\* A native method called directly, without a callback of the adapter; the
\* method returns value in the same step.
Direct(res, op, t, ref, value) ==
    /\ nNative' = nNative + 1
    /\ last' = CallStep(res, op, t, ref # NULL, "returned", value, 1)
    /\ nCalls' = nCalls + 1
    /\ UNCHANGED <<handles, pending, closedOk>>

\* The native work a method called without a callback starts: the native
\* statement nstmt is being prepared (prepareSync) or run (runSync).
SyncWork(op, nstmt) ==
    Work("duckdb.Statement", IF op = "prepareSync" THEN "prepare" ELSE "run",
         nstmt, nstmt, "none")

\* A native method that starts work, called without any callback; the
\* method returns value in the same step and the work goes on.
Unbridged(res, op, t, ref, value) ==
    /\ BagCardinality(pending) < MaxPending
    /\ pending' = pending (+) SetToBag({SyncWork(op, ref)})
    /\ nNative' = nNative + 1
    /\ last' = CallStep(res, op, t, ref # NULL, "returned", value, 1)
    /\ nCalls' = nCalls + 1
    /\ UNCHANGED <<handles, closedOk>>

\* ref.prepare(...) / ref.run(...) called directly, without a callback, and
\* wrapped at once: return Statement.create_internal(ddbStmt)
DirectStmt(res, op, t, ref) ==
    /\ nStmt < MaxStmt
    /\ BagCardinality(pending) < MaxPending
    /\ nStmt' = nStmt + 1
    /\ stmt' = [stmt EXCEPT ![nStmt + 1] = nStmt + 1]
    /\ pending' = pending (+) SetToBag({SyncWork(op, nStmt + 1)})
    /\ nNative' = nNative + 1
    /\ last' = CallStep(res, op, t, ref # NULL, "returned",
                        create_internal(Val("duckdb.Statement", nStmt + 1)), 1)
    /\ nCalls' = nCalls + 1
    /\ UNCHANGED <<db, dbCreate, conn, connDb, connCreate, closedOk>>

\* return ref.stream(sql, ...args): the native call makes the QueryResult
\* and the method returns it as it is.  The QueryResult is the caller's to
\* pull from; the adapter keeps nothing of it.
StreamCall(res, t, ref) ==
    /\ BagCardinality(pending) < MaxPending
    /\ pending' = pending (+) SetToBag({Work(res, "stream", t, ref, "pull")})
    /\ nNative' = nNative + 1
    /\ last' = CallStep(res, "stream", t, ref # NULL, "returned", QueryResult, 1)
    /\ nCalls' = nCalls + 1
    /\ UNCHANGED <<handles, closedOk>>

\* ref.each(sql, ...args) with the caller's own callback among args: the
\* native call gets that callback, the method returns nothing.
EachCall(res, t, ref) ==
    /\ BagCardinality(pending) < MaxPending
    /\ pending' = pending (+) SetToBag({Work(res, "each", t, ref, "caller")})
    /\ nNative' = nNative + 1
    /\ last' = CallStep(res, "each", t, ref # NULL, "returned", Undefined, 1)
    /\ nCalls' = nCalls + 1
    /\ UNCHANGED <<handles, closedOk>>

NativePromise == Val("Promise", 0)
ColumnInfo == Val("ColumnInfo[]", 0)

\* ---------------------------------------------------------------- Database
\* Database.create(path, accessMode) with the constructor it runs: the
\* native database is constructed with the normalised configuration and the
\* wrapper keeps the reference; the promise waits for the native callback.
Database_create(d, accessMode) ==
    /\ MayCall
    /\ dbCreate[d] = "none"
    /\ \A d2 \in Dbs : d2 < d => dbCreate[d2] # "none"
    /\ BagCardinality(pending) < MaxPending
    /\ db' = [db EXCEPT ![d] = d]
    /\ dbCreate' = [dbCreate EXCEPT ![d] = "pending"]
    /\ pending' = pending (+) SetToBag({Entry("Database", "create", d, d, "any", d)})
    /\ nNative' = nNative + 1
    /\ last' = [CallStep("Database", "create", d, TRUE, "pending", Undefined, 1)
                  EXCEPT !.config = NativeConfig(trueAccessMode(accessMode)),
                         !.accessMode = accessMode]
    /\ nCalls' = nCalls + 1
    /\ UNCHANGED <<conn, connDb, connCreate, stmt, nStmt, closedOk>>

\* Variant: close clears this.db before it awaits the native close.
Database_close_eager(d) ==
    /\ HoldsDb(d)
    /\ IF db[d] = NULL
       THEN FailLocally("Database", "close", d, "rejected",
                        LocalError("Database", "close", "database"))
       ELSE /\ BagCardinality(pending) < MaxPending
            /\ pending' = pending (+)
                   SetToBag({Entry("Database", "close", d, db[d], "void", 0)})
            /\ db' = [db EXCEPT ![d] = NULL]
            /\ nNative' = nNative + 1
            /\ last' = CallStep("Database", "close", d, TRUE, "pending", Undefined, 1)
            /\ nCalls' = nCalls + 1
            /\ UNCHANGED <<dbCreate, conn, connDb, connCreate, stmt, nStmt, closedOk>>
Database_close(d) ==
    /\ HoldsDb(d)
    /\ IF db[d] = NULL
       THEN FailLocally("Database", "close", d, "rejected",
                        LocalError("Database", "close", "database"))
       ELSE Bridged("Database", "close", d, db[d], "void")

\* Database.connect -> Connection.create -> get_ddb_internal, inside the
\* executor of the new promise: its throw rejects the promise.  With a
\* native database the Connection constructor builds the native connection.
Database_connect(d) ==
    /\ HoldsDb(d)
    /\ IF db[d] = NULL
       THEN FailLocally("Database", "connect", d, "rejected",
                        LocalError("Database", "get_ddb_internal", "database"))
       ELSE \E c \in Conns :
            /\ connCreate[c] = "none"
            /\ \A c2 \in Conns : c2 < c => connCreate[c2] # "none"
            /\ BagCardinality(pending) < MaxPending
            /\ conn' = [conn EXCEPT ![c] = c]
            /\ connDb' = [connDb EXCEPT ![c] = db[d]]
            /\ connCreate' = [connCreate EXCEPT ![c] = "pending"]
            /\ pending' = pending (+)
                   SetToBag({Entry("Database", "connect", d, db[d], "any", c)})
            /\ nNative' = nNative + 1
            /\ last' = CallStep("Database", "connect", d, TRUE, "pending", Undefined, 1)
            /\ nCalls' = nCalls + 1
            /\ UNCHANGED <<db, dbCreate, stmt, nStmt, closedOk>>

\* Variant: all without the async keyword, so that its check throws.
Database_all_sync(d) ==
    /\ HoldsDb(d)
    /\ IF db[d] = NULL
       THEN FailLocally("Database", "all", d, "thrown",
                        LocalError("Database", "all", "database"))
       ELSE Bridged("Database", "all", d, db[d], "TableData")
Database_all(d) ==
    /\ HoldsDb(d)
    /\ IF db[d] = NULL
       THEN FailLocally("Database", "all", d, "rejected",
                        LocalError("Database", "all", "database"))
       ELSE Bridged("Database", "all", d, db[d], "TableData")

Database_arrowIPCAll(d) ==
    /\ HoldsDb(d)
    /\ IF db[d] = NULL
       THEN FailLocally("Database", "arrowIPCAll", d, "rejected",
                        LocalError("Database", "arrowIPCAll", "connection"))
       ELSE Bridged("Database", "arrowIPCAll", d, db[d], "ArrowArray")

\* Variant: each goes through the bridge like all.
Database_each_bridged(d) ==
    /\ HoldsDb(d)
    /\ IF db[d] = NULL
       THEN FailLocally("Database", "each", d, "thrown",
                        LocalError("Database", "each", "database"))
       ELSE Bridged("Database", "each", d, db[d], "RowData")
Database_each(d) ==
    /\ HoldsDb(d)
    /\ IF db[d] = NULL
       THEN FailLocally("Database", "each", d, "thrown",
                        LocalError("Database", "each", "database"))
       ELSE EachCall("Database", d, db[d])

\* Variant: exec without the test of this.db.
Database_exec_unchecked(d) ==
    /\ HoldsDb(d)
    /\ Bridged("Database", "exec", d, db[d], "void")
Database_exec(d) ==
    /\ HoldsDb(d)
    /\ IF db[d] = NULL
       THEN FailLocally("Database", "exec", d, "rejected",
                        LocalError("Database", "exec", "database"))
       ELSE Bridged("Database", "exec", d, db[d], "void")

\* Variant: prepareSync waits for the native callback as prepare does.
Database_prepareSync_awaiting(d) ==
    /\ HoldsDb(d)
    /\ IF db[d] = NULL
       THEN FailLocally("Database", "prepareSync", d, "thrown",
                        LocalError("Database", "prepareSync", "database"))
       ELSE BridgedStmt("Database", "prepareSync", d, db[d])
Database_prepareSync(d) ==
    /\ HoldsDb(d)
    /\ IF db[d] = NULL
       THEN FailLocally("Database", "prepareSync", d, "thrown",
                        LocalError("Database", "prepareSync", "database"))
       ELSE DirectStmt("Database", "prepareSync", d, db[d])

Database_prepare(d) ==
    /\ HoldsDb(d)
    /\ IF db[d] = NULL
       THEN FailLocally("Database", "prepare", d, "rejected",
                        LocalError("Database", "prepare", "database"))
       ELSE BridgedStmt("Database", "prepare", d, db[d])

Database_runSync(d) ==
    /\ HoldsDb(d)
    /\ IF db[d] = NULL
       THEN FailLocally("Database", "runSync", d, "thrown",
                        LocalError("Database", "runSync", "database"))
       ELSE DirectStmt("Database", "runSync", d, db[d])

Database_run(d) ==
    /\ HoldsDb(d)
    /\ IF db[d] = NULL
       THEN FailLocally("Database", "run", d, "rejected",
                        LocalError("Database", "runSync", "database"))
       ELSE BridgedStmt("Database", "run", d, db[d])

Database_register_udf(d) ==
    /\ HoldsDb(d)
    /\ IF db[d] = NULL
       THEN FailLocally("Database", "register_udf", d, "thrown",
                        LocalError("Database", "register", "database"))
       ELSE Direct("Database", "register_udf", d, db[d], Undefined)

Database_unregister_udf(d) ==
    /\ HoldsDb(d)
    /\ IF db[d] = NULL
       THEN FailLocally("Database", "unregister_udf", d, "rejected",
                        LocalError("Database", "unregister", "database"))
       ELSE Bridged("Database", "unregister_udf", d, db[d], "void")

\* Variant: stream collects the rows through the bridge, as all does.
Database_stream_eager(d) ==
    /\ HoldsDb(d)
    /\ IF db[d] = NULL
       THEN FailLocally("Database", "stream", d, "thrown",
                        LocalError("Database", "stream", "database"))
       ELSE Bridged("Database", "stream", d, db[d], "TableData")
Database_stream(d) ==
    /\ HoldsDb(d)
    /\ IF db[d] = NULL
       THEN FailLocally("Database", "stream", d, "thrown",
                        LocalError("Database", "stream", "database"))
       ELSE StreamCall("Database", d, db[d])

Database_arrowIPCStream(d) ==
    /\ HoldsDb(d)
    /\ IF db[d] = NULL
       THEN FailLocally("Database", "arrowIPCStream", d, "thrown",
                        LocalError("Database", "arrowIPCStream", "database"))
       ELSE Direct("Database", "arrowIPCStream", d, db[d], NativePromise)

Database_serialize(d) ==
    /\ HoldsDb(d)
    /\ IF db[d] = NULL
       THEN FailLocally("Database", "serialize", d, "thrown",
                        LocalError("Database", "serialize", "database"))
       ELSE Bridged("Database", "serialize", d, db[d], "void")

Database_parallelize(d) ==
    /\ HoldsDb(d)
    /\ IF db[d] = NULL
       THEN FailLocally("Database", "parallelize", d, "thrown",
                        LocalError("Database", "parallelize", "database"))
       ELSE Bridged("Database", "parallelize", d, db[d], "void")

Database_wait(d) ==
    /\ HoldsDb(d)
    /\ IF db[d] = NULL
       THEN FailLocally("Database", "wait", d, "thrown",
                        LocalError("Database", "wait", "database"))
       ELSE Bridged("Database", "wait", d, db[d], "void")

\* Variant: interrupt drops the calls in flight.
Database_interrupt_cancels(d) ==
    /\ HoldsDb(d)
    /\ IF db[d] = NULL
       THEN FailLocally("Database", "interrupt", d, "thrown",
                        LocalError("Database", "interrupt", "database"))
       ELSE /\ nNative' = nNative + 1
            /\ last' = CallStep("Database", "interrupt", d, TRUE, "returned", Undefined, 1)
            /\ nCalls' = nCalls + 1
            /\ pending' = EmptyBag
            /\ UNCHANGED <<handles, closedOk>>
Database_interrupt(d) ==
    /\ HoldsDb(d)
    /\ IF db[d] = NULL
       THEN FailLocally("Database", "interrupt", d, "thrown",
                        LocalError("Database", "interrupt", "database"))
       ELSE Direct("Database", "interrupt", d, db[d], Undefined)

Database_register_buffer(d) ==
    /\ HoldsDb(d)
    /\ IF db[d] = NULL
       THEN FailLocally("Database", "register_buffer", d, "thrown",
                        LocalError("Database", "register_buffer", "database"))
       ELSE Bridged("Database", "register_buffer", d, db[d], "void")

Database_unregister_buffer(d) ==
    /\ HoldsDb(d)
    /\ IF db[d] = NULL
       THEN FailLocally("Database", "unregister_buffer", d, "thrown",
                        LocalError("Database", "unregister_buffer", "database"))
       ELSE Bridged("Database", "unregister_buffer", d, db[d], "void")

Database_registerReplacementScan(d) ==
    /\ HoldsDb(d)
    /\ IF db[d] = NULL
       THEN FailLocally("Database", "registerReplacementScan", d, "thrown",
                        LocalError("Database", "registerReplacementScan", "database"))
       ELSE Direct("Database", "registerReplacementScan", d, db[d], NativePromise)

\* ---------------------------------------------------------------- Connection
Connection_all(c) ==
    /\ HoldsConn(c)
    /\ IF conn[c] = NULL
       THEN FailLocally("Connection", "all", c, "rejected",
                        LocalError("Connection", "all", "connection"))
       ELSE Bridged("Connection", "all", c, conn[c], "TableData")

Connection_arrowIPCAll(c) ==
    /\ HoldsConn(c)
    /\ IF conn[c] = NULL
       THEN FailLocally("Connection", "arrowIPCAll", c, "rejected",
                        LocalError("Connection", "arrowIPCAll", "connection"))
       ELSE Bridged("Connection", "arrowIPCAll", c, conn[c], "ArrowArray")

Connection_each(c) ==
    /\ HoldsConn(c)
    /\ IF conn[c] = NULL
       THEN FailLocally("Connection", "each", c, "thrown",
                        LocalError("Connection", "each", "connection"))
       ELSE EachCall("Connection", c, conn[c])

Connection_exec(c) ==
    /\ HoldsConn(c)
    /\ IF conn[c] = NULL
       THEN FailLocally("Connection", "exec", c, "rejected",
                        LocalError("Connection", "exec", "connection"))
       ELSE Bridged("Connection", "exec", c, conn[c], "void")

Connection_prepareSync(c) ==
    /\ HoldsConn(c)
    /\ IF conn[c] = NULL
       THEN FailLocally("Connection", "prepareSync", c, "thrown",
                        LocalError("Connection", "prepareSync", "connection"))
       ELSE DirectStmt("Connection", "prepareSync", c, conn[c])

Connection_prepare(c) ==
    /\ HoldsConn(c)
    /\ IF conn[c] = NULL
       THEN FailLocally("Connection", "prepare", c, "rejected",
                        LocalError("Connection", "prepare", "connection"))
       ELSE BridgedStmt("Connection", "prepare", c, conn[c])

Connection_runSync(c) ==
    /\ HoldsConn(c)
    /\ IF conn[c] = NULL
       THEN FailLocally("Connection", "runSync", c, "thrown",
                        LocalError("Connection", "runSync", "connection"))
       ELSE DirectStmt("Connection", "runSync", c, conn[c])

Connection_run(c) ==
    /\ HoldsConn(c)
    /\ IF conn[c] = NULL
       THEN FailLocally("Connection", "run", c, "rejected",
                        LocalError("Connection", "runSync", "connection"))
       ELSE BridgedStmt("Connection", "run", c, conn[c])

Connection_register_udf(c) ==
    /\ HoldsConn(c)
    /\ IF conn[c] = NULL
       THEN FailLocally("Connection", "register_udf", c, "thrown",
                        LocalError("Connection", "register_udf", "connection"))
       ELSE Direct("Connection", "register_udf", c, conn[c], Undefined)

Connection_unregister_udf(c) ==
    /\ HoldsConn(c)
    /\ IF conn[c] = NULL
       THEN FailLocally("Connection", "unregister_udf", c, "rejected",
                        LocalError("Connection", "unregister_udf", "connection"))
       ELSE Bridged("Connection", "unregister_udf", c, conn[c], "void")

Connection_register_bulk(c) ==
    /\ HoldsConn(c)
    /\ IF conn[c] = NULL
       THEN FailLocally("Connection", "register_bulk", c, "thrown",
                        LocalError("Connection", "register_bulk", "connection"))
       ELSE Direct("Connection", "register_bulk", c, conn[c], Undefined)

Connection_stream(c) ==
    /\ HoldsConn(c)
    /\ IF conn[c] = NULL
       THEN FailLocally("Connection", "stream", c, "thrown",
                        LocalError("Connection", "stream", "connection"))
       ELSE StreamCall("Connection", c, conn[c])

Connection_arrowIPCStream(c) ==
    /\ HoldsConn(c)
    /\ IF conn[c] = NULL
       THEN FailLocally("Connection", "arrowIPCStream", c, "thrown",
                        LocalError("Connection", "arrowIPCStream", "connection"))
       ELSE Direct("Connection", "arrowIPCStream", c, conn[c], NativePromise)

Connection_register_buffer(c) ==
    /\ HoldsConn(c)
    /\ IF conn[c] = NULL
       THEN FailLocally("Connection", "register_buffer", c, "thrown",
                        LocalError("Connection", "register_buffer", "connection"))
       ELSE Bridged("Connection", "register_buffer", c, conn[c], "void")

Connection_unregister_buffer(c) ==
    /\ HoldsConn(c)
    /\ IF conn[c] = NULL
       THEN FailLocally("Connection", "unregister_buffer", c, "thrown",
                        LocalError("Connection", "unregister_buffer", "connection"))
       ELSE Bridged("Connection", "unregister_buffer", c, conn[c], "void")

\* Variant: a close called while an earlier close of the Connection is
\* unsettled makes no native call of its own.
Connection_close_deduped(c) ==
    /\ HoldsConn(c)
    /\ IF conn[c] = NULL
       THEN FailLocally("Connection", "close", c, "rejected",
                        LocalError("Connection", "close", "connection"))
       ELSE IF \E e \in BagToSet(pending) :
                   e.res = "Connection" /\ e.op = "close" /\ e.target = c
            THEN /\ last' = CallStep("Connection", "close", c, TRUE, "pending", Undefined, 0)
                 /\ nCalls' = nCalls + 1
                 /\ UNCHANGED <<handles, pending, nNative, closedOk>>
            ELSE Bridged("Connection", "close", c, conn[c], "void")
Connection_close(c) ==
    /\ HoldsConn(c)
    /\ IF conn[c] = NULL
       THEN FailLocally("Connection", "close", c, "rejected",
                        LocalError("Connection", "close", "connection"))
       ELSE Bridged("Connection", "close", c, conn[c], "void")

\* ---------------------------------------------------------------- Statement
\* A Statement checks nothing: every method goes to this.stmt.
\* Variant: a Statement that asks whether any Database is still open.
Statement_all_checked(s) ==
    /\ HoldsStmt(s)
    /\ IF \A d \in Dbs : db[d] = NULL
       THEN FailLocally("Statement", "all", s, "rejected",
                        LocalError("Statement", "all", "database"))
       ELSE Bridged("Statement", "all", s, stmt[s], "TableData")
Statement_all(s) ==
    /\ HoldsStmt(s)
    /\ Bridged("Statement", "all", s, stmt[s], "TableData")

Statement_arrowIPCAll(s) ==
    /\ HoldsStmt(s)
    /\ Bridged("Statement", "arrowIPCAll", s, stmt[s], "ArrowArray")

Statement_each(s) ==
    /\ HoldsStmt(s)
    /\ EachCall("Statement", s, stmt[s])

\* Variant: runSync returns nothing.
Statement_runSync_void(s) ==
    /\ HoldsStmt(s)
    /\ Unbridged("Statement", "runSync", s, stmt[s], Undefined)
Statement_runSync(s) ==
    /\ HoldsStmt(s)
    /\ Unbridged("Statement", "runSync", s, stmt[s], Val("Statement", s))

Statement_run(s) ==
    /\ HoldsStmt(s)
    /\ Bridged("Statement", "run", s, stmt[s], "void")

Statement_finalize(s) ==
    /\ HoldsStmt(s)
    /\ Bridged("Statement", "finalize", s, stmt[s], "void")

Statement_columns(s) ==
    /\ HoldsStmt(s)
    /\ Direct("Statement", "columns", s, stmt[s], ColumnInfo)

\* ---------------------------------------------------------------- callbacks
\* What the native layer may pass to the callback of call e: no error and a
\* result of the declared type, or one of its errors.
Deliveries(e) ==
    {<<Null, r>> : r \in NativeResults(e.rtype, e.obj)}
        \cup {<<x, Undefined>> : x \in NativeErrors}

\* The native layer's own history: a close or finalize it reported done.
NativeClosed(e, err) ==
    IF e.op \in {"close", "finalize"} /\ err = Null
    THEN closedOk \cup {<<e.res, e.target>>}
    ELSE closedOk

\* How the adapter method that made call e goes on after its bridge settles.
Continuation(e) ==
    CASE e.cb # "adapter" -> "native"
      [] e.op \in {"create", "connect"} -> "constructor"
      [] e.op = "close" -> "close"
      [] e.res \in {"Database", "Connection"} /\ e.op \in {"prepare", "run"} -> "wrap"
      [] e.res = "Statement" /\ e.op = "run" -> "this"
      [] OTHER -> "return"

\* The callback of a method that returns its bridge's promise as it is
\* (return xAsync(ref, ...)): all, exec, arrowIPCAll, unregister_udf,
\* register_buffer, unregister_buffer, serialize, parallelize, wait,
\* Statement.all, Statement.arrowIPCAll, Statement.finalize.
\* Variant: the bridge calls the native method again when it reports an error.
\* Variant: the callback looks at the reference again and fails locally when
\* the wrapper was closed in the meantime.
BridgedCallback_checked ==
    \E e \in BagToSet(pending) : \E dl \in Deliveries(e) :
        /\ Continuation(e) = "return"
        /\ LET gone == \/ e.res = "Database" /\ db[e.target] = NULL
                       \/ e.res = "Connection" /\ conn[e.target] = NULL
               p == IF gone
                    THEN Reject(PendingPromise,
                                LocalError(e.res, e.op,
                                           IF e.res = "Database" THEN "database"
                                           ELSE "connection"))
                    ELSE methodPromisify(dl[1], dl[2])
           IN  last' = CallbackStep(e, dl[1], dl[2], p, 0)
        /\ pending' = pending (-) SetToBag({e})
        /\ closedOk' = NativeClosed(e, dl[1])
        /\ UNCHANGED <<handles, nNative, nCalls>>
\* Variant: a native error drops the reference of the wrapper the call was
\* made on.
BridgedCallback_invalidates ==
    \E e \in BagToSet(pending) : \E dl \in Deliveries(e) :
        /\ Continuation(e) = "return"
        /\ last' = CallbackStep(e, dl[1], dl[2], methodPromisify(dl[1], dl[2]), 0)
        /\ pending' = pending (-) SetToBag({e})
        /\ closedOk' = NativeClosed(e, dl[1])
        /\ db' = IF dl[1] # Null /\ e.res = "Database"
                 THEN [db EXCEPT ![e.target] = NULL] ELSE db
        /\ conn' = IF dl[1] # Null /\ e.res = "Connection"
                   THEN [conn EXCEPT ![e.target] = NULL] ELSE conn
        /\ UNCHANGED <<dbCreate, connDb, connCreate, stmt, nStmt, nNative, nCalls>>
BridgedCallback_retry ==
    \E e \in BagToSet(pending) : \E dl \in Deliveries(e) :
        /\ Continuation(e) = "return"
        /\ IF dl[1] # Null /\ nNative < MaxCalls
           THEN /\ last' = CallbackStep(e, dl[1], dl[2], PendingPromise, 1)
                /\ nNative' = nNative + 1
                /\ UNCHANGED <<pending, closedOk>>
           ELSE /\ last' = CallbackStep(e, dl[1], dl[2], methodPromisify(dl[1], dl[2]), 0)
                /\ pending' = pending (-) SetToBag({e})
                /\ closedOk' = NativeClosed(e, dl[1])
                /\ UNCHANGED nNative
        /\ UNCHANGED <<handles, nCalls>>
BridgedCallback ==
    \E e \in BagToSet(pending) : \E dl \in Deliveries(e) :
        /\ Continuation(e) = "return"
        /\ last' = CallbackStep(e, dl[1], dl[2], methodPromisify(dl[1], dl[2]), 0)
        /\ pending' = pending (-) SetToBag({e})
        /\ closedOk' = NativeClosed(e, dl[1])
        /\ UNCHANGED <<handles, nNative, nCalls>>

\* const stmt = await xPrepareAsync(ref, sql, ...args);
\* return Statement.create_internal(stmt);
\* Variant: the wrapper is made whatever the callback reported.
StatementResumed_always(res, op) ==
    \E e \in BagToSet(pending) : \E dl \in Deliveries(e) :
        /\ e.res = res /\ e.op = op
        /\ LET p == Then(methodPromisify(dl[1], dl[2]), create_internal(dl[2])) IN
           /\ last' = CallbackStep(e, dl[1], dl[2], p, 0)
           /\ stmt' = [stmt EXCEPT ![e.obj] = e.obj]
        /\ pending' = pending (-) SetToBag({e})
        /\ closedOk' = NativeClosed(e, dl[1])
        /\ UNCHANGED <<db, dbCreate, conn, connDb, connCreate, nStmt, nNative, nCalls>>
StatementResumed(res, op) ==
    \E e \in BagToSet(pending) : \E dl \in Deliveries(e) :
        /\ e.res = res /\ e.op = op
        /\ LET p == Then(methodPromisify(dl[1], dl[2]), create_internal(dl[2])) IN
           /\ last' = CallbackStep(e, dl[1], dl[2], p, 0)
           /\ stmt' = IF p.state = "fulfilled"
                      THEN [stmt EXCEPT ![dl[2].id] = dl[2].id]
                      ELSE stmt
        /\ pending' = pending (-) SetToBag({e})
        /\ closedOk' = NativeClosed(e, dl[1])
        /\ UNCHANGED <<db, dbCreate, conn, connDb, connCreate, nStmt, nNative, nCalls>>

Database_prepare_resumed == StatementResumed("Database", "prepare")
Database_run_resumed == StatementResumed("Database", "run")
Connection_prepare_resumed == StatementResumed("Connection", "prepare")
Connection_run_resumed == StatementResumed("Connection", "run")

\* await stmtRunAsync(this.stmt, ...args); return this;
Statement_run_resumed ==
    \E e \in BagToSet(pending) : \E dl \in Deliveries(e) :
        /\ e.res = "Statement" /\ e.op = "run"
        /\ last' = CallbackStep(e, dl[1], dl[2],
                       Then(methodPromisify(dl[1], dl[2]), Val("Statement", e.target)), 0)
        /\ pending' = pending (-) SetToBag({e})
        /\ closedOk' = NativeClosed(e, dl[1])
        /\ UNCHANGED <<handles, nNative, nCalls>>

\* await xCloseAsync(ref); this.x = null; -- the field after the await,
\* given the field before it and the reference close was called with.
\* Variants: close that never clears the field; close that puts the
\* reference back when the native close fails.
closeHandle_always(handle, ref, p) ==
    NULL
closeHandle_keep(handle, ref, p) ==
    handle
closeHandle_restore(handle, ref, p) ==
    IF p.state = "fulfilled" THEN NULL ELSE ref
closeHandle(handle, ref, p) ==
    IF p.state = "fulfilled" THEN NULL ELSE handle

\* Variant: a Database close that also clears the Connections made from it.
Database_close_resumed_conns ==
    \E e \in BagToSet(pending) : \E dl \in Deliveries(e) :
        /\ e.res = "Database" /\ e.op = "close"
        /\ LET p == Then(methodPromisify(dl[1], dl[2]), Undefined) IN
           /\ last' = CallbackStep(e, dl[1], dl[2], p, 0)
           /\ db' = [db EXCEPT ![e.target] = closeHandle(db[e.target], e.ref, p)]
           /\ conn' = IF p.state = "fulfilled"
                      THEN [c \in Conns |-> IF connDb[c] = e.ref THEN NULL ELSE conn[c]]
                      ELSE conn
        /\ pending' = pending (-) SetToBag({e})
        /\ closedOk' = NativeClosed(e, dl[1])
        /\ UNCHANGED <<dbCreate, connDb, connCreate, stmt, nStmt, nNative, nCalls>>
Database_close_resumed ==
    \E e \in BagToSet(pending) : \E dl \in Deliveries(e) :
        /\ e.res = "Database" /\ e.op = "close"
        /\ LET p == Then(methodPromisify(dl[1], dl[2]), Undefined) IN
           /\ last' = CallbackStep(e, dl[1], dl[2], p, 0)
           /\ db' = [db EXCEPT ![e.target] = closeHandle(db[e.target], e.ref, p)]
        /\ pending' = pending (-) SetToBag({e})
        /\ closedOk' = NativeClosed(e, dl[1])
        /\ UNCHANGED <<dbCreate, conn, connDb, connCreate, stmt, nStmt, nNative, nCalls>>

\* Variant: a Connection close that also clears the Database reference.
Connection_close_resumed_db ==
    \E e \in BagToSet(pending) : \E dl \in Deliveries(e) :
        /\ e.res = "Connection" /\ e.op = "close"
        /\ LET p == Then(methodPromisify(dl[1], dl[2]), Undefined) IN
           /\ last' = CallbackStep(e, dl[1], dl[2], p, 0)
           /\ conn' = [conn EXCEPT ![e.target] = closeHandle(conn[e.target], e.ref, p)]
           /\ db' = IF p.state = "fulfilled" THEN [d \in Dbs |-> NULL] ELSE db
        /\ pending' = pending (-) SetToBag({e})
        /\ closedOk' = NativeClosed(e, dl[1])
        /\ UNCHANGED <<dbCreate, connDb, connCreate, stmt, nStmt, nNative, nCalls>>
Connection_close_resumed ==
    \E e \in BagToSet(pending) : \E dl \in Deliveries(e) :
        /\ e.res = "Connection" /\ e.op = "close"
        /\ LET p == Then(methodPromisify(dl[1], dl[2]), Undefined) IN
           /\ last' = CallbackStep(e, dl[1], dl[2], p, 0)
           /\ conn' = [conn EXCEPT ![e.target] = closeHandle(conn[e.target], e.ref, p)]
        /\ pending' = pending (-) SetToBag({e})
        /\ closedOk' = NativeClosed(e, dl[1])
        /\ UNCHANGED <<db, dbCreate, connDb, connCreate, stmt, nStmt, nNative, nCalls>>

\* The constructors' callback: if (err) { reject(err); } resolve(this);
\* on the promise of create.
\* Variant: resolve(this) ahead of reject(err).
DatabaseCtorSettle_resolveFirst(err, this) ==
    LET p == Resolve(PendingPromise, this)
    IN  IF err # Null THEN Reject(p, err) ELSE p
DatabaseCtorSignals_either(err, this) ==
    IF err # Null THEN <<Signal("reject", err)>> ELSE <<Signal("resolve", this)>>
DatabaseCtorSignals_rejectOnly(err, this) ==
    IF err # Null THEN <<Signal("reject", err)>> ELSE <<>>
DatabaseCtorSignals(err, this) ==
    IF err # Null
    THEN <<Signal("reject", err), Signal("resolve", this)>>
    ELSE <<Signal("resolve", this)>>
DatabaseCtorSettle(err, this) ==
    Settle(PendingPromise, DatabaseCtorSignals(err, this))

Database_constructed ==
    \E e \in BagToSet(pending) : \E dl \in Deliveries(e) :
        /\ e.op = "create"
        /\ LET p == DatabaseCtorSettle(dl[1], DatabaseObj(e.obj)) IN
           /\ last' = [CallbackStep(e, dl[1], dl[2], p, 0) EXCEPT !.signals =
                           SignalNames(DatabaseCtorSignals(dl[1], DatabaseObj(e.obj)))]
           /\ dbCreate' = [dbCreate EXCEPT ![e.obj] = p.state]
        /\ pending' = pending (-) SetToBag({e})
        /\ UNCHANGED <<db, conn, connDb, connCreate, stmt, nStmt, nNative, closedOk, nCalls>>

\* if (err) { this.conn = null; reject(err); } resolve(this);
\* Variant: resolve(this) ahead of reject(err).
ConnectionCtorSettle_resolveFirst(err, this) ==
    LET p == Resolve(PendingPromise, this)
    IN  IF err # Null THEN Reject(p, err) ELSE p
ConnectionCtorSignals(err, this) ==
    IF err # Null
    THEN <<Signal("reject", err), Signal("resolve", this)>>
    ELSE <<Signal("resolve", this)>>
ConnectionCtorSettle(err, this) ==
    Settle(PendingPromise, ConnectionCtorSignals(err, this))

Connection_constructed ==
    \E e \in BagToSet(pending) : \E dl \in Deliveries(e) :
        /\ e.op = "connect"
        /\ LET p == ConnectionCtorSettle(dl[1], ConnectionObj(e.obj)) IN
           /\ last' = [CallbackStep(e, dl[1], dl[2], p, 0) EXCEPT !.signals =
                           SignalNames(ConnectionCtorSignals(dl[1], ConnectionObj(e.obj)))]
           /\ connCreate' = [connCreate EXCEPT ![e.obj] = p.state]
        /\ conn' = IF dl[1] # Null THEN [conn EXCEPT ![e.obj] = NULL] ELSE conn
        /\ pending' = pending (-) SetToBag({e})
        /\ UNCHANGED <<db, dbCreate, connDb, stmt, nStmt, nNative, closedOk, nCalls>>

\* ---------------------------------------------------------------- native work
\* The native each has one more row of its result: it invokes the callback
\* it was given, the caller's, with that row.  No code of the adapter runs.
\* A result has at most MaxRows rows here: that row is its last.
Native_each_row ==
    \E e \in BagToSet(pending) :
        /\ e.cb = "caller"
        /\ LET row == Val("RowData", e.seen + 1) IN
           last' = [NoStep EXCEPT !.kind = "row", !.res = e.res, !.op = e.op,
                                  !.target = e.target, !.outcome = "invoked",
                                  !.value = row, !.result = row]
        /\ pending' = (pending (-) SetToBag({e})) (+)
                          (IF e.seen + 1 < MaxRows
                           THEN SetToBag({[e EXCEPT !.seen = e.seen + 1]})
                           ELSE EmptyBag)
        /\ UNCHANGED <<handles, nNative, closedOk, nCalls>>

\* Native work started without a callback of the adapter comes to its end
\* (each: after the last row): nothing more is delivered, no code of the
\* adapter runs.
Native_done ==
    \E e \in BagToSet(pending) :
        /\ e.cb \in {"caller", "none"}
        /\ last' = [NoStep EXCEPT !.kind = "native"]
        /\ pending' = pending (-) SetToBag({e})
        /\ UNCHANGED <<handles, nNative, closedOk, nCalls>>

\* The caller pulls from a QueryResult that stream returned (for await, or
\* next()): the native object yields the next row of its source, or reports
\* that the source is exhausted.  A source has at most MaxRows rows here.
\* No code of the adapter runs.
QueryResult_next ==
    \E e \in BagToSet(pending) :
        /\ e.cb = "pull"
        /\ MayCall
        /\ \/ /\ e.seen < MaxRows
              /\ LET row == Val("RowData", e.seen + 1) IN
                 last' = [NoStep EXCEPT !.kind = "pull", !.res = e.res, !.op = e.op,
                                        !.target = e.target, !.outcome = "yielded",
                                        !.value = row, !.result = row]
              /\ pending' = (pending (-) SetToBag({e})) (+)
                                SetToBag({[e EXCEPT !.seen = e.seen + 1]})
           \/ /\ last' = [NoStep EXCEPT !.kind = "pull", !.res = e.res, !.op = e.op,
                                        !.target = e.target, !.outcome = "done",
                                        !.result = Val("RowData", e.seen)]
              /\ pending' = pending (-) SetToBag({e})
        /\ nCalls' = nCalls + 1
        /\ UNCHANGED <<handles, nNative, closedOk>>

\* ---------------------------------------------------------------- specification
\* The native layer invokes a callback a second time, with or without an
\* error: the callback that ran in the step just taken runs again, on the
\* promise it has settled.  The bridge's callback invokes its one signal;
\* the constructors' callbacks run their whole body again, the
\* Connection's `this.conn = null` included.  An async method that awaited
\* the bridge's promise has resumed once and is not resumed again.
Native_callback_again ==
    /\ last.kind \in {"callback", "again"}
    /\ last.outcome \in {"fulfilled", "rejected"}
    /\ \E dl \in {<<Null, last.result>>} \cup {<<x, Undefined>> : x \in NativeErrors} :
       \E c \in Conns :
          /\ last.op = "connect"
             => /\ connCreate[c] = last.outcome
                /\ last.outcome = "fulfilled" => last.value = ConnectionObj(c)
          /\ last.op # "connect" => c = 1
          /\ LET settled == [state |-> last.outcome, value |-> last.value]
                 sigs == CASE last.op = "create" ->
                                  DatabaseCtorSignals(dl[1], DatabaseObj(last.target))
                           [] last.op = "connect" ->
                                  ConnectionCtorSignals(dl[1], ConnectionObj(c))
                           [] OTHER -> promisifySignals(dl[1], dl[2])
                 p == Settle(settled, sigs)
             IN  /\ last' = [last EXCEPT !.kind = "again", !.outcome = p.state,
                                         !.value = p.value, !.native = 0,
                                         !.err = dl[1], !.result = dl[2],
                                         !.signals = SignalNames(sigs)]
                 /\ conn' = IF last.op = "connect" /\ dl[1] # Null
                            THEN [conn EXCEPT ![c] = NULL]
                            ELSE conn
    /\ UNCHANGED <<db, dbCreate, connDb, connCreate, stmt, nStmt, pending, nNative,
                   closedOk, nCalls>>

Next ==
    \/ \E d \in Dbs, am \in AccessModes : Database_create(d, am)
    \/ Database_constructed
    \/ \E d \in Dbs : Database_close(d)
    \/ Database_close_resumed
    \/ \E d \in Dbs : Database_connect(d)
    \/ Connection_constructed
    \/ Native_each_row
    \/ Native_done
    \/ QueryResult_next
    \/ \E d \in Dbs : Database_all(d)
    \/ \E d \in Dbs : Database_arrowIPCAll(d)
    \/ \E d \in Dbs : Database_each(d)
    \/ \E d \in Dbs : Database_exec(d)
    \/ \E d \in Dbs : Database_prepareSync(d)
    \/ \E d \in Dbs : Database_prepare(d)
    \/ Database_prepare_resumed
    \/ \E d \in Dbs : Database_runSync(d)
    \/ \E d \in Dbs : Database_run(d)
    \/ Database_run_resumed
    \/ \E d \in Dbs : Database_register_udf(d)
    \/ \E d \in Dbs : Database_unregister_udf(d)
    \/ \E d \in Dbs : Database_stream(d)
    \/ \E d \in Dbs : Database_arrowIPCStream(d)
    \/ \E d \in Dbs : Database_serialize(d)
    \/ \E d \in Dbs : Database_parallelize(d)
    \/ \E d \in Dbs : Database_wait(d)
    \/ \E d \in Dbs : Database_interrupt(d)
    \/ \E d \in Dbs : Database_register_buffer(d)
    \/ \E d \in Dbs : Database_unregister_buffer(d)
    \/ \E d \in Dbs : Database_registerReplacementScan(d)
    \/ \E c \in Conns : Connection_all(c)
    \/ \E c \in Conns : Connection_arrowIPCAll(c)
    \/ \E c \in Conns : Connection_each(c)
    \/ \E c \in Conns : Connection_exec(c)
    \/ \E c \in Conns : Connection_prepareSync(c)
    \/ \E c \in Conns : Connection_prepare(c)
    \/ Connection_prepare_resumed
    \/ \E c \in Conns : Connection_runSync(c)
    \/ \E c \in Conns : Connection_run(c)
    \/ Connection_run_resumed
    \/ \E c \in Conns : Connection_register_udf(c)
    \/ \E c \in Conns : Connection_unregister_udf(c)
    \/ \E c \in Conns : Connection_register_bulk(c)
    \/ \E c \in Conns : Connection_stream(c)
    \/ \E c \in Conns : Connection_arrowIPCStream(c)
    \/ \E c \in Conns : Connection_register_buffer(c)
    \/ \E c \in Conns : Connection_unregister_buffer(c)
    \/ \E c \in Conns : Connection_close(c)
    \/ Connection_close_resumed
    \/ \E s \in Stmts : Statement_all(s)
    \/ \E s \in Stmts : Statement_arrowIPCAll(s)
    \/ \E s \in Stmts : Statement_each(s)
    \/ \E s \in Stmts : Statement_runSync(s)
    \/ \E s \in Stmts : Statement_run(s)
    \/ Statement_run_resumed
    \/ \E s \in Stmts : Statement_finalize(s)
    \/ \E s \in Stmts : Statement_columns(s)
    \/ BridgedCallback

Spec == Init /\ [][Next]_vars

\* The promise-returning operations, one of each way a method goes on after
\* its bridge settles (Continuation) on each kind of wrapper, with a native
\* layer that may invoke a callback twice.
NextAgain ==
    \/ \E d \in Dbs, am \in AccessModes : Database_create(d, am)
    \/ Database_constructed
    \/ \E d \in Dbs : Database_connect(d)
    \/ Connection_constructed
    \/ \E d \in Dbs : Database_all(d)
    \/ \E d \in Dbs : Database_prepare(d)
    \/ Database_prepare_resumed
    \/ \E d \in Dbs : Database_close(d)
    \/ Database_close_resumed
    \/ \E c \in Conns : Connection_all(c)
    \/ \E c \in Conns : Connection_run(c)
    \/ Connection_run_resumed
    \/ \E c \in Conns : Connection_close(c)
    \/ Connection_close_resumed
    \/ \E s \in Stmts : Statement_all(s)
    \/ \E s \in Stmts : Statement_run(s)
    \/ Statement_run_resumed
    \/ \E s \in Stmts : Statement_finalize(s)
    \/ BridgedCallback
    \/ Native_callback_again
SpecAgain == Init /\ [][NextAgain]_vars

\* The native layer invokes the callback of every call it received: while
\* a call is in flight, a callback of the adapter runs sooner or later.
\* Callers make finitely many calls, so every call in flight gets its turn.
NativeCallback ==
    \/ Database_constructed
    \/ Connection_constructed
    \/ BridgedCallback
    \/ Database_prepare_resumed
    \/ Database_run_resumed
    \/ Connection_prepare_resumed
    \/ Connection_run_resumed
    \/ Statement_run_resumed
    \/ Database_close_resumed
    \/ Connection_close_resumed
NativeDelivers == WF_vars(NativeCallback)
\* The asynchronous operations, one of each way a method goes on after its
\* bridge settles on each kind of wrapper, under that native layer.
NextLive ==
    \/ \E d \in Dbs, am \in AccessModes : Database_create(d, am)
    \/ Database_constructed
    \/ \E d \in Dbs : Database_connect(d)
    \/ Connection_constructed
    \/ \E d \in Dbs : Database_all(d)
    \/ \E d \in Dbs : Database_prepare(d)
    \/ Database_prepare_resumed
    \/ \E d \in Dbs : Database_run(d)
    \/ Database_run_resumed
    \/ \E d \in Dbs : Database_close(d)
    \/ Database_close_resumed
    \/ \E c \in Conns : Connection_exec(c)
    \/ \E c \in Conns : Connection_prepare(c)
    \/ Connection_prepare_resumed
    \/ \E c \in Conns : Connection_run(c)
    \/ Connection_run_resumed
    \/ \E c \in Conns : Connection_close(c)
    \/ Connection_close_resumed
    \/ \E s \in Stmts : Statement_all(s)
    \/ \E s \in Stmts : Statement_run(s)
    \/ Statement_run_resumed
    \/ \E s \in Stmts : Statement_finalize(s)
    \/ BridgedCallback
SpecLive == Init /\ [][NextLive]_vars /\ NativeDelivers

\* ---------------------------------------------------------------- arguments
\* What a method hands to the native method, as a function of what its
\* caller handed to it.  The arguments are the sql text, the positional
\* parameters (for each, the caller's callback is the last of them) and the
\* callback of the bridge.
SqlTexts == {Val("string", i) : i \in 1..MaxSql}
Params == {Val("any", i) : i \in 1..MaxParam}
ArgLists == UNION {[1..n -> Params] : n \in 0..MaxArgs}
BridgeCallback == Val("callback", 0)

\* util.promisify((target, ...args) => methodFn.bind(target)(...args)):
\* the native method gets the arguments of the call and, after them, the
\* (err, value) callback of the promise.
methodPromisifyArgs(args) ==
    Append(args, BridgeCallback)

\* f(sql, ...args) as in `this.conn.stream(sql, ...args)`.
\* Variant: only the first parameter is handed on.
SqlCall_firstOnly(sql, args) ==
    <<sql>> \o (IF args = <<>> THEN <<>> ELSE <<Head(args)>>)
SqlCall(sql, args) ==
    <<sql>> \o args

\* The methods that take sql and parameters, on Database and on Connection
\* alike, and the methods of a Statement, which take parameters only.
BridgedSqlOps == {"all", "arrowIPCAll", "exec", "prepare", "run"}
PlainSqlOps == {"each", "prepareSync", "runSync", "stream", "arrowIPCStream"}
BridgedStmtOps == {"all", "arrowIPCAll", "run"}
PlainStmtOps == {"each", "runSync"}

NativeArguments(res, op, sql, args) ==
    CASE res = "Statement" /\ op \in BridgedStmtOps -> methodPromisifyArgs(args)
      [] res = "Statement" -> args
      [] op \in BridgedSqlOps -> methodPromisifyArgs(SqlCall(sql, args))
      [] OTHER -> SqlCall(sql, args)

\* One method called with sql and args on a wrapper that holds its
\* reference: the record of what it was given and of what it gave the
\* native method.
ForwardStep(res, op, sql, args) ==
    [kind |-> "forward", res |-> res, op |-> op, sql |-> sql, params |-> args,
     nativeArgs |-> NativeArguments(res, op, sql, args)]

Forward_sql ==
    \E res \in {"Database", "Connection"}, op \in BridgedSqlOps \cup PlainSqlOps,
       sql \in SqlTexts, args \in ArgLists :
        /\ last' = ForwardStep(res, op, sql, args)
        /\ UNCHANGED <<handles, pending, nNative, closedOk, nCalls>>

Forward_stmt ==
    \E op \in BridgedStmtOps \cup PlainStmtOps, args \in ArgLists :
        /\ last' = ForwardStep("Statement", op, Undefined, args)
        /\ UNCHANGED <<handles, pending, nNative, closedOk, nCalls>>

NextArgs == Forward_sql \/ Forward_stmt
SpecArgs == Init /\ [][NextArgs]_vars

\* ---------------------------------------------------------------- properties
\* A call on a Database or Connection whose reference field was null.
LocalFailure ==
    last.kind = "call" /\ last.res \in {"Database", "Connection"} /\ ~last.valid

\* The call just made came back with a local error and without a native call.
FailedLocally ==
    /\ last.outcome \in {"thrown", "rejected"}
    /\ last.value.kind = "Error"
    /\ last.value.code = ""
    /\ last.native = 0

\* C1: after a Database.close() whose native close succeeded, every later
\* call of a public operation on that Database fails with a local error and
\* makes no call to the native layer.
C1_ClosedDatabaseFailsLocally ==
    (last.kind = "call" /\ last.res = "Database"
        /\ <<"Database", last.target>> \in closedOk)
    => FailedLocally

C1_Witness ==
    /\ last.kind = "call" /\ last.res = "Database" /\ last.op = "exec"
    /\ <<"Database", last.target>> \in closedOk
    /\ last.outcome = "rejected"

\* C2: after a Connection.close() whose native close succeeded, every later
\* call of an operation on that Connection fails with a local "uninitialized
\* connection" error and makes no call to the native layer.
C2_ClosedConnectionFailsLocally ==
    (last.kind = "call" /\ last.res = "Connection"
        /\ <<"Connection", last.target>> \in closedOk)
    => (FailedLocally /\ last.value.what = "connection")

C2_Witness ==
    /\ last.kind = "call" /\ last.res = "Connection" /\ last.op = "all"
    /\ <<"Connection", last.target>> \in closedOk
    /\ last.outcome = "rejected"

\* C3: closing a Connection never affects its Database: a step of
\* Connection.close (the call or its callback) leaves every Database's
\* reference and every other Connection's reference as they were; a Database
\* is valid unless its own close succeeded; and a call on a valid Database
\* is forwarded to the native layer.
C3_ConnectionCloseLeavesDatabase ==
    /\ [](\A d \in Dbs :
            (dbCreate[d] = "fulfilled" /\ <<"Database", d>> \notin closedOk)
            => db[d] # NULL)
    /\ [][/\ (last'.res = "Connection" /\ last'.op = "close")
             => /\ db' = db
                /\ dbCreate' = dbCreate
                /\ \A c \in Conns \ {last'.target} :
                       conn'[c] = conn[c] /\ connCreate'[c] = connCreate[c]
          /\ (last'.kind = "call" /\ last'.res = "Database"
                 /\ db[last'.target] # NULL)
             => nNative' = nNative + 1]_vars

C3_Witness ==
    /\ last.kind = "callback" /\ last.res = "Connection" /\ last.op = "close"
    /\ last.outcome = "fulfilled"
    /\ conn[last.target] = NULL
    /\ \A d \in Dbs : db[d] # NULL
    /\ \E c \in Conns : conn[c] # NULL /\ connCreate[c] = "fulfilled"

\* C4: after finalize() has succeeded, every later call of an operation on
\* that Statement fails with a local error and makes no call to the native
\* layer.
C4_FinalizedStatementFailsLocally ==
    (last.kind = "call" /\ last.res = "Statement"
        /\ <<"Statement", last.target>> \in closedOk)
    => FailedLocally

\* The methods declared async, and connect, whose check runs inside the
\* executor of the promise it returns.
PromiseFailing ==
    {"all", "exec", "prepare", "run", "unregister_udf", "arrowIPCAll", "close",
     "connect"}

C6_LocalErrorNamesOperation ==
    LocalFailure
    => /\ last.value.res = last.res
       /\ last.value.op = last.op
       /\ last.value.what = (IF last.res = "Database" THEN "database" ELSE "connection")

\* C7 as stated: the promise of a bridged operation fulfils with exactly the
\* result the native callback delivered when its error is null, and rejects
\* with exactly the delivered error otherwise.
C7_PromiseCarriesNativeResult ==
    (last.kind = "callback" /\ last.op # "connect")
    => IF last.err = Null
       THEN last.outcome = "fulfilled" /\ last.value = last.result
       ELSE last.outcome = "rejected" /\ last.value = last.err

\* What the promise of the adapter method fulfils with, given the result the
\* native callback delivered.
FulfilmentValue ==
    CASE last.op = "create" -> Val("Database", last.target)
      [] last.op = "close" -> Undefined
      [] last.res \in {"Database", "Connection"} /\ last.op \in {"prepare", "run"}
            -> Val("Statement", last.result.id)
      [] last.res = "Statement" /\ last.op = "run" -> Val("Statement", last.target)
      [] OTHER -> last.result

\* C7 as amended: the promise rejects with exactly the error the native
\* callback delivered when that error is not null; otherwise it fulfils, with
\* exactly the delivered result for all, exec, arrowIPCAll, unregister_udf,
\* register_buffer, unregister_buffer, wait, serialize, parallelize and
\* Statement.all/arrowIPCAll/finalize, with undefined for close, with a new
\* Statement wrapper around the delivered native statement for prepare and
\* run, with the Statement itself for Statement.run and with the Database
\* itself for open.
C7_PromiseSettlesFromCallback ==
    (last.kind = "callback" /\ last.op # "connect")
    => IF last.err = Null
       THEN last.outcome = "fulfilled" /\ last.value = FulfilmentValue
       ELSE last.outcome = "rejected" /\ last.value = last.err

C7_Witness ==
    /\ last.kind = "callback" /\ last.res = "Database" /\ last.op = "prepare"
    /\ last.err = Null
    /\ last.outcome = "fulfilled"
    /\ last.value.kind = "Statement"

C9_CreateExposesOnlyReady ==
    [][\A d \in Dbs :
        /\ (dbCreate'[d] = "fulfilled" /\ dbCreate[d] # "fulfilled")
           => /\ dbCreate[d] = "pending"
              /\ last'.kind = "callback" /\ last'.op = "create" /\ last'.target = d
              /\ last'.err = Null
              /\ last'.outcome = "fulfilled" /\ last'.value = Val("Database", d)
              /\ db'[d] # NULL
        /\ (dbCreate[d] = "pending" /\ last'.kind = "callback" /\ last'.op = "create"
               /\ last'.target = d /\ last'.err # Null)
           => /\ dbCreate'[d] = "rejected"
              /\ last'.outcome = "rejected" /\ last'.value = last'.err
        /\ dbCreate[d] = "rejected" => dbCreate'[d] = "rejected"]_vars

C9_Witness ==
    /\ last.kind = "callback" /\ last.op = "create"
    /\ last.err \in NativeErrors
    /\ dbCreate[last.target] = "rejected"

\* C10: Closed is terminal: a Database or Connection whose close succeeded
\* and whose reference is null keeps a null reference in every later step,
\* callbacks of calls that were in flight at close time included.
C10_ClosedIsTerminal ==
    [][/\ \A d \in Dbs :
            (<<"Database", d>> \in closedOk /\ db[d] = NULL) => db'[d] = NULL
       /\ \A c \in Conns :
            (<<"Connection", c>> \in closedOk /\ conn[c] = NULL) => conn'[c] = NULL]_vars

C10_Witness ==
    /\ last.kind = "callback" /\ last.res = "Database" /\ last.op = "close"
    /\ last.err \in NativeErrors
    /\ <<"Database", last.target>> \in closedOk
    /\ db[last.target] = NULL

\* A call of Database.create: the step in which the native constructor runs.
CreateCall == last.kind = "call" /\ last.res = "Database" /\ last.op = "create"

\* C11: for every call of Database.create, the accessMode omitted, a numeric
\* flag or a named-option record, the configuration handed to the native
\* constructor has duckdb_api = 'nodejs-async'.
C11_ConfigCarriesApiTag ==
    CreateCall => (last.native = 1 /\ last.config.duckdb_api = "nodejs-async")

C11_Witness ==
    /\ CreateCall
    /\ last.accessMode.type = "record"
    /\ last.accessMode.rec.duckdb_api = ""
    /\ last.config.duckdb_api = "nodejs-async"

\* C12: a flag-style accessMode reaches the native constructor as the record
\* with access_mode 'read_only' for the read-only open mode and 'read_write'
\* for every other number, and an omitted accessMode gives the configuration
\* OPEN_READWRITE gives.
C12_FlagIsNormalised ==
    CreateCall
    => /\ last.accessMode.type = "number"
          => last.config =
                 [access_mode |-> IF last.accessMode.num = OPEN_READONLY
                                  THEN "read_only" ELSE "read_write",
                  max_memory |-> "", threads |-> "", duckdb_api |-> "nodejs-async"]
       /\ last.accessMode.type = "undefined"
          => last.config =
                 [access_mode |-> "read_write", max_memory |-> "", threads |-> "",
                  duckdb_api |-> "nodejs-async"]

C12_Witness ==
    /\ CreateCall
    /\ last.accessMode.type = "undefined"
    /\ last.config.access_mode = "read_write"

\* The native each call of the step just taken (or of the row just
\* delivered) still holds the caller's callback, seen rows delivered.
EachRegistered(seen) ==
    \E e \in BagToSet(pending) :
        /\ e.res = last.res /\ e.op = "each" /\ e.target = last.target
        /\ e.cb = "caller" /\ e.seen = seen

\* C13: each is not bridged.  Database.each, Connection.each and
\* Statement.each on a valid handle give the native each the caller's own
\* callback and return nothing, no promise; the native layer invokes that
\* callback once per row, with the row as it is, and the callback stays
\* registered for the next row: N invocations for N rows, no adapter
\* callback and no settlement in between.
C13_EachIsNotBridged ==
    /\ (last.kind = "call" /\ last.op = "each" /\ last.valid)
       => /\ last.outcome = "returned" /\ last.value = Undefined
          /\ last.native = 1
          /\ EachRegistered(0)
    /\ \A e \in BagToSet(pending) : e.op = "each" => e.cb = "caller"
    /\ last.kind = "callback" => last.op # "each"
    /\ last.kind = "row"
       => /\ last.op = "each" /\ last.outcome = "invoked"
          /\ last.value = last.result
          /\ last.value.id < MaxRows => EachRegistered(last.value.id)

C13_Witness ==
    /\ last.kind = "row"
    /\ last.res = "Statement"
    /\ last.value.id = 2

\* The operations that call the native layer without any callback.
SyncVariants == {"prepareSync", "runSync", "columns"}

\* C14: the synchronous variants never suspend.  prepareSync and runSync of
\* Database and Connection, Statement.runSync and Statement.columns, called
\* on a valid handle, make their native call and return in that same step,
\* with a Statement that is usable at once (the column list for columns);
\* no native callback is ever delivered to the adapter for them, and the
\* native work prepareSync/runSync started is still unfinished when they
\* return.
C14_SyncVariantsReturnAtOnce ==
    /\ (last.kind = "call" /\ last.valid /\ last.op \in SyncVariants)
       => /\ last.outcome = "returned"
          /\ last.native = 1
          /\ last.op = "columns" => last.value = ColumnInfo
          /\ last.op # "columns"
             => /\ last.value.kind = "Statement"
                /\ stmt[last.value.id] # NULL
                /\ BagIn(SyncWork(last.op, last.value.id), pending)
    /\ last.kind = "callback" => last.op \notin SyncVariants

C14_Witness ==
    /\ last.kind = "call" /\ last.valid
    /\ last.res = "Connection" /\ last.op = "runSync"
    /\ last.outcome = "returned"
    /\ BagCardinality(pending) = 2

\* C15: Statement.runSync returns the Statement it was called on, and
\* Statement.run fulfils with it when the native run reports no error.  The
\* native run is issued in the step of the runSync call itself, so it has
\* been issued when the caller gets the Statement back and can call
\* finalize on it (stmt.runSync().finalize()).
C15_RunReturnsItsStatement ==
    /\ (last.kind = "call" /\ last.res = "Statement" /\ last.op = "runSync")
       => /\ last.outcome = "returned"
          /\ last.value = Val("Statement", last.target)
          /\ last.native = 1
          /\ BagIn(SyncWork("runSync", stmt[last.target]), pending)
    /\ (last.kind = "callback" /\ last.res = "Statement" /\ last.op = "run")
       => IF last.err = Null
          THEN last.outcome = "fulfilled" /\ last.value = Val("Statement", last.target)
          ELSE last.outcome = "rejected" /\ last.value = last.err

\* finalize called while the native run of runSync on the same Statement is
\* still outstanding: the run was issued first.
C15_Witness ==
    /\ last.kind = "call" /\ last.res = "Statement" /\ last.op = "finalize"
    /\ last.native = 1
    /\ BagIn(SyncWork("runSync", stmt[last.target]), pending)

\* An earlier call on the handle of the call just made has not settled: the
\* native layer still owes the adapter its callback.
EarlierUnsettled ==
    \E e \in BagToSet(pending) :
        /\ e.res = last.res /\ e.target = last.target /\ e.cb = "adapter"
        /\ e.op # last.op \/ CopiesIn(e, pending) > 1

\* C16: the adapter neither queues nor reorders.  A call on a valid
\* Database or Connection is handed to the native layer in the step of the
\* call itself, whatever earlier calls on that handle are still unsettled,
\* and no other step (a callback, a row, the end of native work) hands a
\* call to the native layer: the native layer receives the calls in the
\* order the caller made them.
C16_ForwardedAtTheCall ==
    /\ (last.kind = "call" /\ last.res \in {"Database", "Connection"} /\ last.valid)
       => /\ last.native = 1
          /\ last.outcome \in {"pending", "returned"}
          /\ last.outcome = "pending"
             => \E e \in BagToSet(pending) :
                    /\ e.res = last.res /\ e.op = last.op
                    /\ e.target = last.target /\ e.cb = "adapter"
    /\ last.kind # "call" => last.native = 0

C16_Witness ==
    /\ last.kind = "call" /\ last.res = "Connection" /\ last.valid
    /\ last.op = "exec"
    /\ EarlierUnsettled
    /\ last.native = 1

\* The reference field of a Database or Connection wrapper.
HandleOf(res, t) == IF res = "Database" THEN db[t] ELSE conn[t]

\* A native close of the handle of the call just made has been requested and
\* its callback is still to come.
CloseRequested ==
    \E e \in BagToSet(pending) :
        /\ e.res = last.res /\ e.target = last.target /\ e.op = "close"
        /\ last.op # "close" \/ CopiesIn(e, pending) > 1

\* C17: close() against work in flight is not arbitrated.  close() does
\* not wait for calls already forwarded: it requests the native close in
\* its own step.  The handle stays valid while the native close is
\* outstanding, until a close callback reports success, so a call made in
\* that window passes the check and reaches the native layer after the
\* native close was requested.
C17_CloseLeavesWindow ==
    /\ (last.kind = "call" /\ last.op = "close" /\ last.valid)
       => last.native = 1 /\ last.outcome = "pending"
    /\ \A e \in BagToSet(pending) :
           (e.op = "close" /\ <<e.res, e.target>> \notin closedOk)
           => HandleOf(e.res, e.target) # NULL
    /\ (last.kind = "call" /\ last.res \in {"Database", "Connection"}
            /\ CloseRequested /\ <<last.res, last.target>> \notin closedOk)
       => last.valid /\ last.native = 1

C17_Witness ==
    /\ last.kind = "call" /\ last.res = "Database" /\ last.op = "all"
    /\ CloseRequested
    /\ last.valid /\ last.native = 1
    /\ BagCardinality(pending) = 2

\* C18: Database.connect() on a Ready Database constructs a new native
\* connection on the reference the Database holds at the call, and its
\* promise fulfils, with that Connection, only in the native callback that
\* reported no error (a rejected one stays rejected); on a Database whose
\* reference is null connect() fails with a local error and constructs
\* nothing.
C18_ConnectBindsAndExposes ==
    [][/\ (last'.kind = "call" /\ last'.op = "connect" /\ last'.valid)
          => /\ db[last'.target] # NULL
             /\ last'.native = 1 /\ last'.outcome = "pending"
             /\ \E c \in Conns :
                    /\ connCreate[c] = "none" /\ connCreate'[c] = "pending"
                    /\ conn'[c] # NULL
                    /\ connDb'[c] = db[last'.target]
       /\ (last'.kind = "call" /\ last'.op = "connect" /\ ~last'.valid)
          => /\ db[last'.target] = NULL
             /\ last'.outcome = "rejected" /\ last'.value.kind = "Error"
             /\ last'.native = 0
             /\ UNCHANGED <<conn, connDb, connCreate, pending, nNative>>
       /\ \A c \in Conns :
             /\ (connCreate'[c] = "fulfilled" /\ connCreate[c] # "fulfilled")
                => /\ connCreate[c] = "pending"
                   /\ last'.kind = "callback" /\ last'.op = "connect"
                   /\ last'.err = Null
                   /\ last'.outcome = "fulfilled" /\ last'.value = ConnectionObj(c)
                   /\ conn'[c] # NULL /\ connDb'[c] = connDb[c]
             /\ connCreate[c] = "rejected" => connCreate'[c] = "rejected"]_vars

C18_Witness ==
    /\ last.kind = "callback" /\ last.op = "connect"
    /\ last.err = Null /\ last.outcome = "fulfilled"
    /\ connCreate[last.value.id] = "fulfilled"
    /\ connDb[last.value.id] = db[last.target]
    /\ \E c \in Conns : connCreate[c] = "rejected"

\* C19: a Connection's validity is not re-validated against its Database.
\* A Connection that was handed out keeps its reference unless its own close
\* succeeded, whatever became of the Database, and a call on it after the
\* Database's close succeeded passes the local check and is forwarded.
C19_ConnectionOutlivesDatabase ==
    /\ \A c \in Conns :
           (connCreate[c] = "fulfilled" /\ <<"Connection", c>> \notin closedOk)
           => conn[c] # NULL
    /\ (last.kind = "call" /\ last.res = "Connection"
            /\ <<"Connection", last.target>> \notin closedOk)
       => /\ last.valid /\ last.native = 1
          /\ last.outcome \in {"pending", "returned"}

C19_Witness ==
    /\ last.kind = "call" /\ last.res = "Connection" /\ last.op = "all"
    /\ <<"Database", connDb[last.target]>> \in closedOk
    /\ db[connDb[last.target]] = NULL
    /\ last.valid /\ last.native = 1

\* C20: a Statement has no back-reference to its creator.  Whatever the
\* state of every Database and Connection, the ones that produced it
\* included, a call on a Statement wrapper finds the wrapper as it was and
\* is forwarded to the native statement; no check of any kind precedes the
\* native call.
C20_StatementIgnoresCreator ==
    (last.kind = "call" /\ last.res = "Statement")
    => /\ last.valid /\ last.native = 1
       /\ last.outcome \in {"pending", "returned"}
       /\ stmt[last.target] = last.target

\* No Connection was ever made and every Database made is closed: the
\* Statement's creator is a closed Database.
C20_Witness ==
    /\ last.kind = "call" /\ last.res = "Statement" /\ last.op = "all"
    /\ \A c \in Conns : connCreate[c] = "none"
    /\ \A d \in Dbs : dbCreate[d] # "none"
                      => (db[d] = NULL /\ <<"Database", d>> \in closedOk)
    /\ last.native = 1 /\ last.outcome = "pending"

\* The step just taken let its caller see a failure: a throw or a rejected
\* promise.
FailureObserved == last.outcome \in {"thrown", "rejected"}

\* C21: the two error origins are never conflated.  Every failure a caller
\* observes is either local (it comes back from the call itself, no native
\* call was made for it, and the error has no native code tag) or native
\* (it is the error object the native callback delivered, with the fixed
\* code tag); the tag tells the two apart.
C21_ErrorOriginsDistinct ==
    FailureObserved
    => IF last.value.code = "DUCKDB_NODEJS_ERROR"
       THEN /\ last.kind = "callback"
            /\ last.value = last.err
            /\ last.value \in NativeErrors
       ELSE /\ last.kind = "call"
            /\ last.native = 0
            /\ last.value.kind = "Error"
            /\ last.value.code = ""

\* A native failure delivered to Connection.all after the Connection was
\* closed: calls on that handle now fail locally, this one failed natively.
C21_Witness ==
    /\ FailureObserved
    /\ last.kind = "callback" /\ last.res = "Connection" /\ last.op = "all"
    /\ last.value.code = "DUCKDB_NODEJS_ERROR"
    /\ conn[last.target] = NULL

\* C22: prepare against prepareSync, run against runSync, on Database and
\* Connection.  The asynchronous variant makes no Statement at the call; the
\* callback that reports no error makes the wrapper and fulfils with it, the
\* callback that reports an error rejects with it and makes none.  The
\* synchronous variant makes the wrapper and returns it in the step of the
\* call, and the end of the native work it started leaves the wrapper alone.
C22_StatementOnSuccessOrAtOnce ==
    [][/\ (last'.kind = "callback" /\ last'.res \in {"Database", "Connection"}
              /\ last'.op \in {"prepare", "run"})
          => IF last'.err = Null
             THEN /\ last'.outcome = "fulfilled"
                  /\ last'.value = Val("Statement", last'.result.id)
                  /\ stmt[last'.result.id] = NULL
                  /\ stmt'[last'.result.id] = last'.result.id
             ELSE /\ last'.outcome = "rejected" /\ last'.value = last'.err
                  /\ stmt' = stmt
       /\ (last'.kind = "call" /\ last'.valid
              /\ last'.res \in {"Database", "Connection"}
              /\ last'.op \in {"prepare", "run"})
          => last'.outcome = "pending" /\ stmt' = stmt
       /\ (last'.kind = "call" /\ last'.valid
              /\ last'.res \in {"Database", "Connection"}
              /\ last'.op \in {"prepareSync", "runSync"})
          => /\ last'.outcome = "returned"
             /\ last'.value.kind = "Statement"
             /\ stmt[last'.value.id] = NULL
             /\ stmt'[last'.value.id] = last'.value.id
       /\ last'.kind = "native" => stmt' = stmt]_vars

\* A prepare whose callback reported an error: rejected, and the native
\* statement the call allocated has no wrapper.
C22_Witness ==
    /\ last.kind = "callback" /\ last.res = "Connection" /\ last.op = "prepare"
    /\ last.err \in NativeErrors
    /\ last.outcome = "rejected"
    /\ nStmt = 1 /\ stmt[1] = NULL

\* The QueryResult of the stream call just made (or pulled from), seen
\* elements yielded so far.
StreamHeld(seen) ==
    \E e \in BagToSet(pending) :
        /\ e.res = last.res /\ e.op = "stream" /\ e.target = last.target
        /\ e.cb = "pull" /\ e.seen = seen

C26_FailedCloseKeepsHandle ==
    /\ (last.kind = "callback" /\ last.op = "close" /\ last.err # Null)
       => /\ last.outcome = "rejected" /\ last.value = last.err
          /\ <<last.res, last.target>> \notin closedOk
             => HandleOf(last.res, last.target) # NULL
    /\ \A d \in Dbs : (dbCreate[d] = "fulfilled" /\ db[d] = NULL)
                      => <<"Database", d>> \in closedOk
    /\ \A c \in Conns : (connCreate[c] = "fulfilled" /\ conn[c] = NULL)
                        => <<"Connection", c>> \in closedOk
    /\ (last.kind = "call" /\ last.res \in {"Database", "Connection"}
            /\ last.op # "create"
            /\ <<last.res, last.target>> \notin closedOk)
       => last.valid /\ last.native = 1

C26_Witness ==
    /\ last.kind = "callback" /\ last.res = "Connection" /\ last.op = "close"
    /\ last.err \in NativeErrors
    /\ last.outcome = "rejected"
    /\ conn[last.target] # NULL

C29_InterruptLeavesPending ==
    [][/\ (last'.kind = "call" /\ last'.op = "interrupt" /\ last'.valid)
          => /\ last'.res = "Database"
             /\ last'.outcome = "returned" /\ last'.value = Undefined
             /\ last'.native = 1 /\ nNative' = nNative + 1
             /\ db' = db /\ conn' = conn /\ stmt' = stmt
             /\ dbCreate' = dbCreate /\ connCreate' = connCreate
             /\ closedOk' = closedOk
             /\ pending' = pending
       /\ \A e \in BagToSet(pending) :
             (e.cb = "adapter" /\ CopiesIn(e, pending') < CopiesIn(e, pending))
             => /\ last'.kind = "callback"
                /\ last'.res = e.res /\ last'.op = e.op /\ last'.target = e.target]_vars

C29_Witness ==
    /\ last.kind = "call" /\ last.op = "interrupt" /\ last.valid
    /\ last.outcome = "returned"
    /\ \E e \in BagToSet(pending) :
          e.cb = "adapter" /\ e.res = "Database" /\ e.op = "all" /\ e.target = last.target

\* The native close calls of the handle of the call just made whose
\* callbacks are still to come.
ClosesInFlight ==
    LET es == {e \in BagToSet(pending) :
                  e.res = last.res /\ e.target = last.target /\ e.op = "close"}
    IN  IF es = {} THEN 0 ELSE CopiesIn(CHOOSE e \in es : TRUE, pending)

\* C30: close() is not made idempotent against itself.  A close() called
\* while an earlier close() of the same Database or Connection is unsettled
\* passes the validity check like the first and makes a native close call of
\* its own; close() fails locally, without a native call, exactly when an
\* earlier close has already succeeded.
C30_CloseTwiceBothForwarded ==
    (last.kind = "call" /\ last.op = "close" /\ last.res \in {"Database", "Connection"})
    => /\ last.valid <=> <<last.res, last.target>> \notin closedOk
       /\ last.valid
          => /\ last.native = 1 /\ last.outcome = "pending"
             /\ ClosesInFlight >= 1
             /\ HandleOf(last.res, last.target) # NULL
       /\ ~last.valid
          => /\ FailedLocally
             /\ last.outcome = "rejected"
             /\ HandleOf(last.res, last.target) = NULL

\* The second of two close() calls has just been made, the first unsettled.
C30_Witness ==
    /\ last.kind = "call" /\ last.op = "close" /\ last.res = "Connection"
    /\ last.valid /\ last.native = 1
    /\ ClosesInFlight = 2

\* C31: only close changes validity.  A step of any operation other than
\* close (the call, its native callback, a row or a pull of it), whether it
\* succeeded, failed natively or failed locally, leaves the reference of
\* every Database and of every Connection that was handed out as it was;
\* create only sets the reference of the Database it makes.
C31_OnlyCloseChangesValidity ==
    [][last'.op # "close"
        => /\ \A d \in Dbs :
                (last'.op = "create" /\ last'.kind = "call" /\ last'.target = d)
                \/ db'[d] = db[d]
           /\ \A c \in Conns : connCreate[c] = "fulfilled" => conn'[c] = conn[c]
           /\ \A d \in Dbs : dbCreate[d] = "fulfilled" => dbCreate'[d] = "fulfilled"
           /\ \A c \in Conns : connCreate[c] = "fulfilled" => connCreate'[c] = "fulfilled"]_vars

\* A native query error was just delivered to a call on a Connection, and
\* the Connection still holds its reference.
C31_Witness ==
    /\ last.kind = "callback" /\ last.res = "Connection" /\ last.op = "exec"
    /\ last.err \in NativeErrors /\ last.outcome = "rejected"
    /\ conn[last.target] # NULL
    /\ <<"Connection", last.target>> \notin closedOk

\* C32: a call already forwarded is not affected by a later close of its
\* handle.  When the native callback of a call on a Database or Connection
\* arrives after the wrapper's reference was cleared, a close of the wrapper
\* has succeeded in the meantime, and the promise of the call still settles
\* from its own callback: it rejects with the delivered native error or
\* fulfils with the delivered result, never with a local error.
C32_ForwardedSurvivesClose ==
    (/\ last.kind = "callback"
     /\ last.res \in {"Database", "Connection"}
     /\ last.op \notin {"close", "create", "connect"}
     /\ HandleOf(last.res, last.target) = NULL)
    => /\ <<last.res, last.target>> \in closedOk
       /\ last.native = 0
       /\ IF last.err = Null
          THEN /\ last.outcome = "fulfilled"
               /\ last.value = FulfilmentValue
               /\ last.value.kind # "Error"
          ELSE /\ last.outcome = "rejected"
               /\ last.value = last.err
               /\ last.value.code = "DUCKDB_NODEJS_ERROR"

\* Database.all was forwarded, the Database was closed with success, and
\* then the callback of all delivered its rows.
C32_Witness ==
    /\ last.kind = "callback" /\ last.res = "Database" /\ last.op = "all"
    /\ db[last.target] = NULL /\ <<"Database", last.target>> \in closedOk
    /\ last.err = Null /\ last.outcome = "fulfilled"

\* Calls in flight whose callback is the adapter's: each stands for a
\* promise a caller holds and that is still pending.
BridgedInFlight == {e \in BagToSet(pending) : e.cb = "adapter"}

\* Some promise the adapter returned is pending: that of a create, of a
\* connect, or of a call in flight.
SomePromisePending ==
    \/ \E d \in Dbs : dbCreate[d] = "pending"
    \/ \E c \in Conns : connCreate[c] = "pending"
    \/ BridgedInFlight # {}

\* C33: the bridge is live.  With a native layer that invokes the callback
\* of every call it received, whenever a promise the adapter has returned is
\* pending (create, connect and close included) there comes a state in which
\* none is; and the step of a native callback always settles the promise it
\* belongs to, so no promise is left pending once its callback has run.
C33_EveryPromiseSettles ==
    /\ [](last.kind = "callback" => last.outcome \in {"fulfilled", "rejected"})
    /\ SomePromisePending ~> ~SomePromisePending

\* The promise of close has just settled and nothing is in flight any more.
C33_Witness ==
    /\ last.kind = "callback" /\ last.op = "close" /\ last.res = "Connection"
    /\ last.outcome = "fulfilled"
    /\ ~SomePromisePending

\* C34: for a named-option accessMode, every entry the caller supplied other
\* than duckdb_api (access_mode, max_memory, threads) reaches the native
\* constructor with its key and its value unchanged, an entry the caller
\* did not supply is not added, and duckdb_api is 'nodejs-async' whatever
\* the caller supplied for it.
C34_OptionsPassThrough ==
    (CreateCall /\ last.accessMode.type = "record")
    => /\ last.native = 1
       /\ last.config.access_mode = last.accessMode.rec.access_mode
       /\ last.config.max_memory = last.accessMode.rec.max_memory
       /\ last.config.threads = last.accessMode.rec.threads
       /\ last.config.duckdb_api = "nodejs-async"

\* The caller supplied max_memory and threads.
C34_Witness ==
    /\ CreateCall
    /\ last.accessMode.type = "record"
    /\ last.accessMode.rec.max_memory = "512MB"
    /\ last.accessMode.rec.access_mode = "READ_WRITE"
    /\ last.config.threads = "4"

\* The operations whose native call carries the callback of the bridge.
IsBridgedForward ==
    \/ last.res = "Statement" /\ last.op \in {"all", "arrowIPCAll", "run"}
    \/ last.res # "Statement" /\ last.op \in {"all", "arrowIPCAll", "exec", "prepare", "run"}

\* C35: argument pass-through.  The native method receives the sql text
\* first (a Statement's methods take none), then every positional parameter
\* the caller gave, each as an argument of its own, in the caller's order
\* and unchanged; a bridged operation adds exactly one argument after them,
\* its callback, and the others add nothing.
C35_ArgumentsPassThrough ==
    last.kind = "forward"
    => LET off == IF last.res = "Statement" THEN 0 ELSE 1
           n == Len(last.params)
           cb == IF IsBridgedForward THEN 1 ELSE 0
       IN  /\ Len(last.nativeArgs) = off + n + cb
           /\ off = 1 => last.nativeArgs[1] = last.sql
           /\ \A i \in 1..n : last.nativeArgs[off + i] = last.params[i]
           /\ cb = 1 => last.nativeArgs[off + n + 1] = BridgeCallback

\* stream(sql, p1, p2) on a Connection: native stream gets sql, p1, p2.
C35_Witness ==
    /\ last.kind = "forward" /\ last.res = "Connection" /\ last.op = "stream"
    /\ Len(last.params) = 2 /\ last.params[1] # last.params[2]
    /\ last.nativeArgs = <<last.sql, last.params[1], last.params[2]>>
====
